---- MODULE Spec2Model ----
(***************************************************************************)
(* Model of homeassistant/components/weather/__init__.py: the WeatherEntity *)
(* unit-conversion and rounding pipeline (displayed_unit, convert_*,        *)
(* state_attributes) and the replacement of the unit override map on a      *)
(* registry update.                                                         *)
(*                                                                          *)
(* Numbers are integers in thousandths of a unit ("milli"): 38 is 38000.    *)
(* A Python value that may be None is a sequence of length at most one:     *)
(* None is << >> and x is << x >>.                                          *)
(***************************************************************************)
EXTENDS Integers, Sequences, FiniteSets, TLC

None == << >>
Some(x) == << x >>

\* a local variable: v is evaluated once and Body applied to its value
Local(v, Body(_)) == CHOOSE r \in {Body(x) : x \in {v}} : TRUE

\* dict.get(key) on a dict whose values are themselves optional
Get(d, k) == IF k \in DOMAIN d THEN d[k] ELSE None

(***************************************************************************)
(* homeassistant.const unit strings                                        *)
(***************************************************************************)
TEMP_CELSIUS == "C"
TEMP_FAHRENHEIT == "F"
TEMP_KELVIN == "K"
PRESSURE_HPA == "hPa"
PRESSURE_INHG == "inHg"
PRESSURE_KPA == "kPa"
PRESSURE_MMHG == "mmHg"
LENGTH_KILOMETERS == "km"
LENGTH_MILES == "mi"
LENGTH_METERS == "m"
LENGTH_MILLIMETERS == "mm"
LENGTH_INCHES == "in"
SPEED_KILOMETERS_PER_HOUR == "km/h"
SPEED_MILES_PER_HOUR == "mph"
SPEED_METERS_PER_SECOND == "m/s"

ATTR_WEATHER_HUMIDITY == "humidity"
ATTR_WEATHER_OZONE == "ozone"
ATTR_WEATHER_PRESSURE == "pressure"
ATTR_WEATHER_TEMPERATURE == "temperature"
ATTR_WEATHER_VISIBILITY == "visibility"
ATTR_WEATHER_WIND_BEARING == "wind_bearing"
ATTR_WEATHER_WIND_SPEED == "wind_speed"
ATTR_WEATHER_PRECIPITATION == "precipitation"
ATTR_FORECAST == "forecast"
ATTR_FORECAST_CONDITION == "condition"
ATTR_FORECAST_PRECIPITATION == "precipitation"
ATTR_FORECAST_PRECIPITATION_PROBABILITY == "precipitation_probability"
ATTR_FORECAST_PRESSURE == "pressure"
ATTR_FORECAST_TEMP == "temperature"
ATTR_FORECAST_TEMP_LOW == "templow"
ATTR_FORECAST_TIME == "datetime"
ATTR_FORECAST_WIND_BEARING == "wind_bearing"
ATTR_FORECAST_WIND_SPEED == "wind_speed"
DOMAIN_WEATHER == "weather"
CONF_UNITS_OF_MEASUREMENT == "units_of_measurement"

ROUNDING_PRECISION == 2

(***************************************************************************)
(* Exact arithmetic.  A converted value is the rational a * b / d (in      *)
(* milli), kept unevaluated so that no intermediate product leaves the     *)
(* 32-bit range; ok = FALSE is the ValueError the conversion helper raises.*)
(***************************************************************************)
Rat(a, b, d) == [ok |-> TRUE, a |-> a, b |-> b, d |-> d]
ConversionError == [ok |-> FALSE, a |-> 0, b |-> 1, d |-> 1]

Pow10(k) == IF k <= 0 THEN 1 ELSE IF k = 1 THEN 10 ELSE IF k = 2 THEN 100 ELSE 1000

\* quotient and remainder of a * b by d, for a >= 0, b >= 0, d > 0, by
\* octal digits of b: every intermediate value stays below 15 * d
RECURSIVE MulDivMod(_, _, _)
MulDivMod(a, b, d) ==
    IF b = 0 THEN [q |-> 0, r |-> 0]
    ELSE LET h == MulDivMod(a, b \div 8, d)
             digit == b % 8
             r2 == 8 * h.r + digit * (a % d)
             q2 == 8 * h.q + digit * (a \div d)
         IN  [q |-> q2 + (r2 \div d), r |-> r2 % d]

\* the integer nearest to a * b / d, ties to the even one (Python's round)
RoundHalfEven(a, b, d) ==
    LET neg == a < 0
        nearest(m) ==
            LET up == (2 * m.r > d) \/ (2 * m.r = d /\ (m.q % 2) = 1)
                n == IF up THEN m.q + 1 ELSE m.q
            IN  IF neg THEN -n ELSE n
    IN  Local(MulDivMod(IF neg THEN -a ELSE a, b, d), nearest)

\* round(x, ndigits) of the rational x, as a milli value
round(x, ndigits) ==
    LET unit == Pow10(3 - ndigits)
    IN  RoundHalfEven(x.a, x.b, x.d * unit) * unit

\* round(v, ndigits) of a milli value
round_value(v, ndigits) == round(Rat(v, 1, 1), ndigits)

(***************************************************************************)
(* homeassistant.util.{temperature,pressure,distance,speed}.convert: the   *)
(* conversion helpers the entity calls.  Each raises ValueError for a unit *)
(* it does not know, returns the value itself when the two units are the   *)
(* same, and otherwise applies the standard conversion.                    *)
(***************************************************************************)
temperature_util_VALID_UNITS == {TEMP_CELSIUS, TEMP_FAHRENHEIT, TEMP_KELVIN}
pressure_util_VALID_UNITS == {PRESSURE_HPA, PRESSURE_KPA, PRESSURE_INHG, PRESSURE_MMHG}
distance_util_VALID_UNITS ==
    {LENGTH_KILOMETERS, LENGTH_MILES, LENGTH_METERS, LENGTH_MILLIMETERS, LENGTH_INCHES}
speed_util_VALID_UNITS ==
    {SPEED_KILOMETERS_PER_HOUR, SPEED_MILES_PER_HOUR, SPEED_METERS_PER_SECOND}

\* thousandths of a pascal in one unit
PressureWeight(u) ==
    CASE u = PRESSURE_HPA -> 100000
      [] u = PRESSURE_KPA -> 1000000
      [] u = PRESSURE_INHG -> 3386389
      [] u = PRESSURE_MMHG -> 133322

\* fifths of a millimetre in one unit
DistanceWeight(u) ==
    CASE u = LENGTH_KILOMETERS -> 5000000
      [] u = LENGTH_MILES -> 8046720
      [] u = LENGTH_METERS -> 5000
      [] u = LENGTH_MILLIMETERS -> 5
      [] u = LENGTH_INCHES -> 127

\* 1/56250 m/s in one unit: km/h is 1/3.6 m/s, mph is 0.44704 m/s
SpeedWeight(u) ==
    CASE u = SPEED_KILOMETERS_PER_HOUR -> 15625
      [] u = SPEED_MILES_PER_HOUR -> 25146
      [] u = SPEED_METERS_PER_SECOND -> 56250

temperature_util_convert(temperature, from_unit, to_unit) ==
    IF from_unit \notin temperature_util_VALID_UNITS
       \/ to_unit \notin temperature_util_VALID_UNITS
    THEN ConversionError
    ELSE IF from_unit = to_unit THEN Rat(temperature, 1, 1)
    ELSE CASE from_unit = TEMP_CELSIUS /\ to_unit = TEMP_FAHRENHEIT ->
                Rat(9 * temperature + 160000, 1, 5)
           [] from_unit = TEMP_CELSIUS /\ to_unit = TEMP_KELVIN ->
                Rat(temperature + 273150, 1, 1)
           [] from_unit = TEMP_FAHRENHEIT /\ to_unit = TEMP_CELSIUS ->
                Rat(5 * (temperature - 32000), 1, 9)
           [] from_unit = TEMP_FAHRENHEIT /\ to_unit = TEMP_KELVIN ->
                Rat(5 * (temperature - 32000) + 9 * 273150, 1, 9)
           [] from_unit = TEMP_KELVIN /\ to_unit = TEMP_CELSIUS ->
                Rat(temperature - 273150, 1, 1)
           [] from_unit = TEMP_KELVIN /\ to_unit = TEMP_FAHRENHEIT ->
                Rat(9 * (temperature - 273150) + 160000, 1, 5)

pressure_util_convert(value, unit_1, unit_2) ==
    IF unit_1 \notin pressure_util_VALID_UNITS \/ unit_2 \notin pressure_util_VALID_UNITS
    THEN ConversionError
    ELSE IF unit_1 = unit_2 THEN Rat(value, 1, 1)
    ELSE Rat(value, PressureWeight(unit_1), PressureWeight(unit_2))

distance_util_convert(value, unit_1, unit_2) ==
    IF unit_1 \notin distance_util_VALID_UNITS \/ unit_2 \notin distance_util_VALID_UNITS
    THEN ConversionError
    ELSE IF unit_1 = unit_2 THEN Rat(value, 1, 1)
    ELSE Rat(value, DistanceWeight(unit_1), DistanceWeight(unit_2))

speed_util_convert(value, unit_1, unit_2) ==
    IF unit_1 \notin speed_util_VALID_UNITS \/ unit_2 \notin speed_util_VALID_UNITS
    THEN ConversionError
    ELSE IF unit_1 = unit_2 THEN Rat(value, 1, 1)
    ELSE Rat(value, SpeedWeight(unit_1), SpeedWeight(unit_2))

(***************************************************************************)
(* The unit tables of the weather component                                *)
(***************************************************************************)
Quantities ==
    {ATTR_WEATHER_TEMPERATURE, ATTR_WEATHER_PRESSURE, ATTR_WEATHER_VISIBILITY,
     ATTR_WEATHER_WIND_SPEED, ATTR_WEATHER_PRECIPITATION}

VALID_UNITS(quantity) ==
    CASE quantity = ATTR_WEATHER_TEMPERATURE -> temperature_util_VALID_UNITS
      [] quantity = ATTR_WEATHER_PRESSURE -> pressure_util_VALID_UNITS
      [] quantity = ATTR_WEATHER_VISIBILITY -> {LENGTH_KILOMETERS, LENGTH_MILES}
      [] quantity = ATTR_WEATHER_WIND_SPEED ->
            {SPEED_KILOMETERS_PER_HOUR, SPEED_MILES_PER_HOUR, SPEED_METERS_PER_SECOND}
      [] quantity = ATTR_WEATHER_PRECIPITATION -> {LENGTH_MILLIMETERS, LENGTH_INCHES}

\* METRIC_UNITS with the visibility default in metres, a unit VALID_UNITS
\* does not list for visibility
METRIC_UNITS_visibility_in_metres(quantity) ==
    CASE quantity = ATTR_WEATHER_TEMPERATURE -> TEMP_CELSIUS
      [] quantity = ATTR_WEATHER_PRESSURE -> PRESSURE_HPA
      [] quantity = ATTR_WEATHER_VISIBILITY -> LENGTH_METERS
      [] quantity = ATTR_WEATHER_WIND_SPEED -> SPEED_KILOMETERS_PER_HOUR
      [] quantity = ATTR_WEATHER_PRECIPITATION -> LENGTH_MILLIMETERS

METRIC_UNITS(quantity) ==
    CASE quantity = ATTR_WEATHER_TEMPERATURE -> TEMP_CELSIUS
      [] quantity = ATTR_WEATHER_PRESSURE -> PRESSURE_HPA
      [] quantity = ATTR_WEATHER_VISIBILITY -> LENGTH_KILOMETERS
      [] quantity = ATTR_WEATHER_WIND_SPEED -> SPEED_KILOMETERS_PER_HOUR
      [] quantity = ATTR_WEATHER_PRECIPITATION -> LENGTH_MILLIMETERS

IMPERIAL_UNITS(quantity) ==
    CASE quantity = ATTR_WEATHER_TEMPERATURE -> TEMP_FAHRENHEIT
      [] quantity = ATTR_WEATHER_PRESSURE -> PRESSURE_INHG
      [] quantity = ATTR_WEATHER_VISIBILITY -> LENGTH_MILES
      [] quantity = ATTR_WEATHER_WIND_SPEED -> SPEED_MILES_PER_HOUR
      [] quantity = ATTR_WEATHER_PRECIPITATION -> LENGTH_INCHES

(***************************************************************************)
(* WeatherEntity.  `self` is the entity as a read sees it:                 *)
(*   self.is_metric   hass.config.units.is_metric                          *)
(*   self.option      _option_units_of_measurement (None or a dict)        *)
(*   self.attr        the _attr_* fields                                   *)
(***************************************************************************)
preferred_units(self, quantity) ==
    IF self.is_metric THEN METRIC_UNITS(quantity) ELSE IMPERIAL_UNITS(quantity)

\* a str is truthy when it is neither None nor empty
Truthy(opt) == opt # None /\ opt # Some("")

\* displayed_unit without the check against VALID_UNITS
displayed_unit_unvalidated(self, quantity) ==
    LET unit == preferred_units(self, quantity)
    IN  IF self.option # None
        THEN LET opt == Get(self.option[1], quantity)
             IN  IF Truthy(opt) THEN opt[1] ELSE unit
        ELSE unit

\* displayed_unit falling back to the metric table, not the profile's, when
\* it rejects an override
displayed_unit_metric_fallback(self, quantity) ==
    LET unit == preferred_units(self, quantity)
    IN  IF self.option # None
        THEN LET opt == Get(self.option[1], quantity)
             IN  IF Truthy(opt)
                 THEN IF opt[1] \in VALID_UNITS(quantity) THEN opt[1]
                      ELSE METRIC_UNITS(quantity)
                 ELSE unit
        ELSE unit

\* displayed_unit that never looks at the override
displayed_unit_ignores_override(self, quantity) == preferred_units(self, quantity)

\* displayed_unit that uses the override map only when every unit the map
\* holds is valid for its quantity
displayed_unit_all_or_nothing(self, quantity) ==
    LET unit == preferred_units(self, quantity)
    IN  IF self.option # None
           /\ \A k \in DOMAIN self.option[1] :
                 Truthy(self.option[1][k]) => self.option[1][k][1] \in VALID_UNITS(k)
        THEN LET opt == Get(self.option[1], quantity)
             IN  IF Truthy(opt) /\ opt[1] \in VALID_UNITS(quantity)
                 THEN opt[1]
                 ELSE unit
        ELSE unit

displayed_unit(self, quantity) ==
    LET unit == preferred_units(self, quantity)
    IN  IF self.option # None
        THEN LET opt == Get(self.option[1], quantity)
             IN  IF Truthy(opt) /\ opt[1] \in VALID_UNITS(quantity)
                 THEN opt[1]
                 ELSE unit
        ELSE unit

\* the outcome of a convert_* method: a milli value, or the helper's error
Converted(v) == [ok |-> TRUE, v |-> v]
Raised == [ok |-> FALSE, v |-> 0]

\* convert_temperature rounding to one decimal whatever the displayed unit
convert_temperature_tenths(self, temperature, unit) ==
    LET displayed == displayed_unit(self, ATTR_WEATHER_TEMPERATURE)
        t == temperature_util_convert(temperature, unit, displayed)
    IN  IF ~t.ok THEN Raised ELSE Converted(round(t, 1))

convert_temperature(self, temperature, unit) ==
    LET displayed == displayed_unit(self, ATTR_WEATHER_TEMPERATURE)
        t == temperature_util_convert(temperature, unit, displayed)
    IN  IF ~t.ok THEN Raised
        ELSE IF displayed = TEMP_CELSIUS THEN Converted(round(t, 1))
        ELSE Converted(round(t, 0))

convert_pressure(self, pressure, unit) ==
    LET displayed == displayed_unit(self, ATTR_WEATHER_PRESSURE)
        p == pressure_util_convert(pressure, unit, displayed)
    IN  IF ~p.ok THEN Raised ELSE Converted(round(p, ROUNDING_PRECISION))

convert_wind_speed(self, wind_speed, unit) ==
    LET displayed == displayed_unit(self, ATTR_WEATHER_WIND_SPEED)
        w == speed_util_convert(wind_speed, unit, displayed)
    IN  IF ~w.ok THEN Raised ELSE Converted(round(w, ROUNDING_PRECISION))

convert_visibility(self, visibility, unit) ==
    LET displayed == displayed_unit(self, ATTR_WEATHER_VISIBILITY)
        d == distance_util_convert(visibility, unit, displayed)
    IN  IF ~d.ok THEN Raised ELSE Converted(round(d, ROUNDING_PRECISION))

\* convert_precipitation with the displayed unit of visibility, the other
\* quantity that distance_util converts
convert_precipitation_as_visibility(self, precipitation, unit) ==
    LET displayed == displayed_unit(self, ATTR_WEATHER_VISIBILITY)
        d == distance_util_convert(precipitation, unit, displayed)
    IN  IF ~d.ok THEN Raised ELSE Converted(round(d, ROUNDING_PRECISION))

convert_precipitation(self, precipitation, unit) ==
    LET displayed == displayed_unit(self, ATTR_WEATHER_PRECIPITATION)
        d == distance_util_convert(precipitation, unit, displayed)
    IN  IF ~d.ok THEN Raised ELSE Converted(round(d, ROUNDING_PRECISION))

(***************************************************************************)
(* state_attributes.  The read is threaded through an accumulator:         *)
(*   acc.raised   a conversion helper raised and the read ended there      *)
(*   acc.data     the `data` dict built so far                             *)
(*   acc.calls    the conversions invoked, as <<place, field>>: place 0 is *)
(*                the top level and place i the i-th forecast entry        *)
(***************************************************************************)
EmptyDict == [k \in {} |-> None]

Start == [raised |-> FALSE, data |-> EmptyDict, calls |-> {}]

\* data[key] = value
Put(acc, key, value) == [acc EXCEPT !.data = (key :> value) @@ @]

\* PutConverted catching the helper's error: the quantity is left out of
\* the result and the read goes on
PutConverted_swallowed(acc, site, key, c) ==
    IF c.ok
    THEN [acc EXCEPT !.data = (key :> c.v) @@ @, !.calls = @ \cup {site}]
    ELSE [acc EXCEPT !.calls = @ \cup {site}]

\* the outcome c of a conversion invoked at `site`, stored under key
PutConverted(acc, site, key, c) ==
    IF c.ok
    THEN [acc EXCEPT !.data = (key :> c.v) @@ @, !.calls = @ \cup {site}]
    ELSE [raised |-> TRUE, data |-> EmptyDict, calls |-> acc.calls \cup {site}]

TopLevel == 0

top_temperature(self, acc) ==
    IF acc.raised \/ self.attr.temperature = None THEN acc
    ELSE IF self.attr.temperature_unit = None
    THEN Put(acc, ATTR_WEATHER_TEMPERATURE, self.attr.temperature[1])
    ELSE PutConverted(acc, <<TopLevel, ATTR_WEATHER_TEMPERATURE>>, ATTR_WEATHER_TEMPERATURE,
            convert_temperature(self, self.attr.temperature[1], self.attr.temperature_unit[1]))

\* top_humidity storing the value as supplied
top_humidity_unrounded(self, acc) ==
    IF acc.raised \/ self.attr.humidity = None THEN acc
    ELSE Put(acc, ATTR_WEATHER_HUMIDITY, self.attr.humidity[1])

top_humidity(self, acc) ==
    IF acc.raised \/ self.attr.humidity = None THEN acc
    ELSE Put(acc, ATTR_WEATHER_HUMIDITY, round_value(self.attr.humidity[1], 0))

top_ozone(self, acc) ==
    IF acc.raised \/ self.attr.ozone = None THEN acc
    ELSE Put(acc, ATTR_WEATHER_OZONE, self.attr.ozone[1])

top_pressure(self, acc) ==
    IF acc.raised \/ self.attr.pressure = None THEN acc
    ELSE IF self.attr.pressure_unit = None
    THEN Put(acc, ATTR_WEATHER_PRESSURE,
             round_value(self.attr.pressure[1], ROUNDING_PRECISION))
    ELSE LET c == convert_pressure(self, self.attr.pressure[1], self.attr.pressure_unit[1])
         IN  PutConverted(acc, <<TopLevel, ATTR_WEATHER_PRESSURE>>, ATTR_WEATHER_PRESSURE,
                IF c.ok THEN Converted(round_value(c.v, ROUNDING_PRECISION)) ELSE c)

top_wind_bearing(self, acc) ==
    IF acc.raised \/ self.attr.wind_bearing = None THEN acc
    ELSE Put(acc, ATTR_WEATHER_WIND_BEARING, self.attr.wind_bearing[1])

\* top_wind_speed testing the unit before the value: a None value reaches
\* the conversion helper, which raises
top_wind_speed_unit_first(self, acc) ==
    IF acc.raised THEN acc
    ELSE IF self.attr.wind_speed_unit # None
    THEN PutConverted(acc, <<TopLevel, ATTR_WEATHER_WIND_SPEED>>, ATTR_WEATHER_WIND_SPEED,
            IF self.attr.wind_speed = None THEN Raised
            ELSE convert_wind_speed(self, self.attr.wind_speed[1],
                                    self.attr.wind_speed_unit[1]))
    ELSE IF self.attr.wind_speed = None THEN acc
    ELSE Put(acc, ATTR_WEATHER_WIND_SPEED, self.attr.wind_speed[1])

top_wind_speed(self, acc) ==
    IF acc.raised \/ self.attr.wind_speed = None THEN acc
    ELSE IF self.attr.wind_speed_unit = None
    THEN Put(acc, ATTR_WEATHER_WIND_SPEED, self.attr.wind_speed[1])
    ELSE PutConverted(acc, <<TopLevel, ATTR_WEATHER_WIND_SPEED>>, ATTR_WEATHER_WIND_SPEED,
            convert_wind_speed(self, self.attr.wind_speed[1], self.attr.wind_speed_unit[1]))

\* top_visibility rounding the value, as the pressure is, when the native
\* unit is None
top_visibility_rounded(self, acc) ==
    IF acc.raised \/ self.attr.visibility = None THEN acc
    ELSE IF self.attr.visibility_unit = None
    THEN Put(acc, ATTR_WEATHER_VISIBILITY,
             round_value(self.attr.visibility[1], ROUNDING_PRECISION))
    ELSE LET displayed == displayed_unit(self, ATTR_WEATHER_VISIBILITY)
             d == distance_util_convert(self.attr.visibility[1],
                                        self.attr.visibility_unit[1], displayed)
         IN  PutConverted(acc, <<TopLevel, ATTR_WEATHER_VISIBILITY>>, ATTR_WEATHER_VISIBILITY,
                IF d.ok THEN Converted(round(d, ROUNDING_PRECISION)) ELSE Raised)

\* lines 337-344 call distance_util.convert and round in place
top_visibility(self, acc) ==
    IF acc.raised \/ self.attr.visibility = None THEN acc
    ELSE IF self.attr.visibility_unit = None
    THEN Put(acc, ATTR_WEATHER_VISIBILITY, self.attr.visibility[1])
    ELSE LET displayed == displayed_unit(self, ATTR_WEATHER_VISIBILITY)
             d == distance_util_convert(self.attr.visibility[1],
                                        self.attr.visibility_unit[1], displayed)
         IN  PutConverted(acc, <<TopLevel, ATTR_WEATHER_VISIBILITY>>, ATTR_WEATHER_VISIBILITY,
                IF d.ok THEN Converted(round(d, ROUNDING_PRECISION)) ELSE Raised)

(***************************************************************************)
(* The forecast loop.  ent is the loop's state for one entry:              *)
(*   ent.raised, ent.calls   as in acc                                     *)
(*   ent.entry               the dict the loop body writes to              *)
(***************************************************************************)
\* entry_field testing only that the field is present: a None value
\* reaches the conversion helper, which raises
entry_field_present_only(ent, place, field, unit, c) ==
    IF ent.raised \/ field \notin DOMAIN ent.entry \/ unit = None THEN ent
    ELSE IF ent.entry[field] # None /\ c.ok
    THEN [ent EXCEPT !.entry = [@ EXCEPT ![field] = Some(c.v)],
                     !.calls = @ \cup {<<place, field>>}]
    ELSE [ent EXCEPT !.raised = TRUE, !.calls = @ \cup {<<place, field>>}]

\* forecast_entry[field] = convert(forecast_entry.get(field), unit), when
\* neither the field's value nor the native unit is None
entry_field(ent, place, field, unit, c) ==
    IF ent.raised \/ Get(ent.entry, field) = None \/ unit = None THEN ent
    ELSE IF c.ok
    THEN [ent EXCEPT !.entry = [@ EXCEPT ![field] = Some(c.v)],
                     !.calls = @ \cup {<<place, field>>}]
    ELSE [ent EXCEPT !.raised = TRUE, !.calls = @ \cup {<<place, field>>}]

\* the value a present, non-None field holds (0 stands in where there is none,
\* and entry_field then ignores the conversion)
FieldValue(entry, field) ==
    IF Get(entry, field) = None THEN 0 ELSE entry[field][1]

UnitValue(unit) == IF unit = None THEN "" ELSE unit[1]

\* lines 350-378 on one entry
convert_entry(self, place, entry, calls) ==
    LET temp(e) ==
            entry_field(e, place, ATTR_FORECAST_TEMP, self.attr.temperature_unit,
                convert_temperature(self, FieldValue(e.entry, ATTR_FORECAST_TEMP),
                                    UnitValue(self.attr.temperature_unit)))
        templow(e) ==
            entry_field(e, place, ATTR_FORECAST_TEMP_LOW, self.attr.temperature_unit,
                convert_temperature(self, FieldValue(e.entry, ATTR_FORECAST_TEMP_LOW),
                                    UnitValue(self.attr.temperature_unit)))
        pressure(e) ==
            entry_field(e, place, ATTR_FORECAST_PRESSURE, self.attr.pressure_unit,
                convert_pressure(self, FieldValue(e.entry, ATTR_FORECAST_PRESSURE),
                                 UnitValue(self.attr.pressure_unit)))
        wind_speed(e) ==
            entry_field(e, place, ATTR_FORECAST_WIND_SPEED, self.attr.wind_speed_unit,
                convert_wind_speed(self, FieldValue(e.entry, ATTR_FORECAST_WIND_SPEED),
                                   UnitValue(self.attr.wind_speed_unit)))
        precipitation(e) ==
            entry_field(e, place, ATTR_FORECAST_PRECIPITATION, self.attr.precipitation_unit,
                convert_precipitation(self, FieldValue(e.entry, ATTR_FORECAST_PRECIPITATION),
                                      UnitValue(self.attr.precipitation_unit)))
    IN  Local([raised |-> FALSE, entry |-> entry, calls |-> calls], LAMBDA e0 :
        Local(temp(e0), LAMBDA e1 :
        Local(templow(e1), LAMBDA e2 :
        Local(pressure(e2), LAMBDA e3 :
        Local(wind_speed(e3), LAMBDA e4 : precipitation(e4))))))

\* the loop without the copy: it writes to the stored entry
stored_entry_aliased(entry, written) == written

\* line 349: forecast_entry = dict(forecast_entry).  The loop writes to a
\* copy, so the stored entry is what it was, whatever the loop wrote.
stored_entry(entry, written) == entry

\* the loop inserting each entry at the head of the list
RECURSIVE forecast_loop_reversed(_, _, _)
forecast_loop_reversed(self, fl, i) ==
    IF fl.raised \/ i > Len(self.attr.forecast[1]) THEN fl
    ELSE LET body(ent) ==
                [raised |-> ent.raised,
                 calls |-> ent.calls,
                 forecast |-> IF ent.raised THEN fl.forecast
                              ELSE <<ent.entry>> \o fl.forecast,
                 stored |-> fl.stored]
             next(after) == forecast_loop_reversed(self, after, i + 1)
         IN  Local(Local(convert_entry(self, i, self.attr.forecast[1][i], fl.calls), body),
                   next)

\* lines 347-380: fl is the loop's state after the entries before place i:
\*   fl.forecast  the list built so far,  fl.stored  the stored list
RECURSIVE forecast_loop(_, _, _)
forecast_loop(self, fl, i) ==
    IF fl.raised \/ i > Len(self.attr.forecast[1]) THEN fl
    ELSE LET body(ent) ==
                [raised |-> ent.raised,
                 calls |-> ent.calls,
                 forecast |-> IF ent.raised THEN fl.forecast
                              ELSE Append(fl.forecast, ent.entry),
                 stored |-> [fl.stored EXCEPT
                                ![i] = stored_entry(self.attr.forecast[1][i], ent.entry)]]
             next(after) == forecast_loop(self, after, i + 1)
         IN  Local(Local(convert_entry(self, i, self.attr.forecast[1][i], fl.calls), body),
                   next)

top_forecast(self, acc) ==
    IF acc.raised \/ self.attr.forecast = None
    THEN [acc |-> acc, stored |-> self.attr.forecast]
    ELSE LET end(fl) ==
                [acc |-> IF fl.raised
                         THEN [raised |-> TRUE, data |-> EmptyDict, calls |-> fl.calls]
                         ELSE [raised |-> FALSE,
                               data |-> (ATTR_FORECAST :> fl.forecast) @@ acc.data,
                               calls |-> fl.calls],
                 stored |-> Some(fl.stored)]
         IN  Local(forecast_loop(self,
                      [raised |-> FALSE, calls |-> acc.calls, forecast |-> << >>,
                       stored |-> self.attr.forecast[1]], 1), end)

\* a read during which the override map is cleared after the top-level
\* values and before the forecast loop
state_attributes_torn(self) ==
    Local(top_temperature(self, Start), LAMBDA a1 :
    Local(top_humidity(self, a1), LAMBDA a2 :
    Local(top_ozone(self, a2), LAMBDA a3 :
    Local(top_pressure(self, a3), LAMBDA a4 :
    Local(top_wind_bearing(self, a4), LAMBDA a5 :
    Local(top_wind_speed(self, a5), LAMBDA a6 :
    Local(top_visibility(self, a6), LAMBDA a7 :
        top_forecast([self EXCEPT !.option = None], a7))))))))

\* the read: .acc is what it returns (or that it raised), .stored the
\* stored forecast list once it has ended
state_attributes(self) ==
    Local(top_temperature(self, Start), LAMBDA a1 :
    Local(top_humidity(self, a1), LAMBDA a2 :
    Local(top_ozone(self, a2), LAMBDA a3 :
    Local(top_pressure(self, a3), LAMBDA a4 :
    Local(top_wind_bearing(self, a4), LAMBDA a5 :
    Local(top_wind_speed(self, a5), LAMBDA a6 :
    Local(top_visibility(self, a6), LAMBDA a7 : top_forecast(self, a7))))))))

(***************************************************************************)
(* Bounds and the inputs drawn within them                                 *)
(***************************************************************************)
\* writes by the integration and by the registry in one behaviour
MaxUpdates == 1
\* entries in a forecast list the integration writes
MaxForecast == 2

INVALID_UNIT == "peer_pressure"

\* <<native value, native unit>> pairs the integration may write
TemperatureChoices ==
    {<<Some(21456), Some(TEMP_CELSIUS)>>, <<Some(21456), None>>,
     <<None, Some(TEMP_FAHRENHEIT)>>, <<Some(38000), Some(INVALID_UNIT)>>}
PressureChoices ==
    {<<Some(1234), Some(PRESSURE_KPA)>>, <<Some(1013256), None>>,
     <<None, Some(PRESSURE_INHG)>>, <<Some(1000000), Some(INVALID_UNIT)>>}
WindSpeedChoices ==
    {<<Some(10123), Some(SPEED_KILOMETERS_PER_HOUR)>>, <<Some(10123), None>>,
     <<None, Some(INVALID_UNIT)>>, <<Some(10000), Some(INVALID_UNIT)>>}
VisibilityChoices ==
    {<<Some(5555), Some(LENGTH_KILOMETERS)>>, <<Some(5555), None>>,
     <<None, Some(LENGTH_MILES)>>, <<Some(10000), Some(INVALID_UNIT)>>}
PrecipitationUnitChoices ==
    {Some(LENGTH_MILLIMETERS), Some(LENGTH_INCHES), Some(INVALID_UNIT)}
HumidityChoices == {Some(55500)}
OzoneChoices == {Some(300123)}
WindBearingChoices == {Some(180500)}

\* forecast entries the integration may hold: one with every field, one
\* whose converted fields are null, one with most fields absent
FullEntry ==
    [condition |-> "sunny", datetime |-> "d1", precipitation |-> Some(30000),
     precipitation_probability |-> Some(40), pressure |-> Some(1000000),
     temperature |-> Some(38000), templow |-> Some(30500),
     wind_bearing |-> Some(90000), wind_speed |-> Some(10000)]

NullEntry ==
    [datetime |-> "d2", precipitation |-> None, pressure |-> None,
     temperature |-> None, templow |-> None, wind_speed |-> None]

SparseEntry ==
    [datetime |-> "d3", temperature |-> Some(21456), wind_speed |-> Some(10123)]

\* the entries of the lists the integration writes; NullEntry is held by the
\* entity that starts as NullValuedAttrs
ForecastEntries == {FullEntry, SparseEntry}

RECURSIVE SeqsUpTo(_, _)
SeqsUpTo(S, n) ==
    IF n = 0 THEN {<< >>}
    ELSE LET shorter == SeqsUpTo(S, n - 1)
         IN  shorter \cup {Append(l, x) : l \in shorter, x \in S}

ForecastChoices == {None} \cup {Some(l) : l \in SeqsUpTo(ForecastEntries, MaxForecast)}

\* the units a user may have stored for a quantity: valid ones, ones the
\* quantity does not accept, the empty string and null
OverrideChoices(quantity) ==
    CASE quantity = ATTR_WEATHER_TEMPERATURE -> {Some(TEMP_KELVIN), None}
      [] quantity = ATTR_WEATHER_PRESSURE ->
            {Some(PRESSURE_INHG), Some(PRESSURE_HPA), Some(INVALID_UNIT), Some("")}
      [] quantity = ATTR_WEATHER_VISIBILITY -> {Some(LENGTH_METERS)}
      [] quantity = ATTR_WEATHER_WIND_SPEED -> {}
      [] quantity = ATTR_WEATHER_PRECIPITATION -> {Some(LENGTH_INCHES)}

\* the units_of_measurement maps: any of the quantities, each with one of
\* its units
OverrideMaps ==
    UNION {
      {m \in [keys -> UNION {OverrideChoices(q) : q \in keys}] :
          \A q \in keys : m[q] \in OverrideChoices(q)} :
      keys \in SUBSET Quantities}

\* the options a registry entry may hold: no weather options, null or empty
\* weather options, a null units map, or a units map
WeatherOptions(m) == (DOMAIN_WEATHER :> Some((CONF_UNITS_OF_MEASUREMENT :> Some(m))))

RegistryOptions ==
    {EmptyDict, (DOMAIN_WEATHER :> None), (DOMAIN_WEATHER :> Some(EmptyDict)),
     (DOMAIN_WEATHER :> Some((CONF_UNITS_OF_MEASUREMENT :> None)))}
    \cup {WeatherOptions(m) : m \in OverrideMaps}

(***************************************************************************)
(* State                                                                   *)
(***************************************************************************)
VARIABLES
    is_metric,                    \* hass.config.units.is_metric
    registry_entry,               \* None, or Some(the entry's options)
    added,                        \* the entity has been added to hass
    option_units_of_measurement,  \* _option_units_of_measurement
    attr,                         \* the _attr_* fields
    result,                       \* the last read, while the state it read stands
    updates                       \* writes so far

vars == <<is_metric, registry_entry, added, option_units_of_measurement, attr,
          result, updates>>

\* the entity as a read sees it
Self == [is_metric |-> is_metric, option |-> option_units_of_measurement, attr |-> attr]

NotRead == [read |-> FALSE, raised |-> FALSE, data |-> EmptyDict, calls |-> {}]

\* registry_entry.options.get(DOMAIN), then weather_options.get(CONF_UNITS_OF_MEASUREMENT);
\* None and the empty dict are both false
custom_units(options) ==
    LET weather_options == Get(options, DOMAIN_WEATHER)
    IN  IF weather_options = None \/ weather_options = Some(EmptyDict) THEN None
        ELSE LET units == Get(weather_options[1], CONF_UNITS_OF_MEASUREMENT)
             IN  IF units = None \/ units = Some(EmptyDict) THEN None ELSE units

\* async_registry_entry_updated without its last line: an update that
\* carries no units map leaves the earlier map in place
async_registry_entry_updated_keeps_map(options) ==
    IF custom_units(options) # None THEN custom_units(options)
    ELSE option_units_of_measurement

\* the value async_registry_entry_updated assigns to _option_units_of_measurement
async_registry_entry_updated(options) == custom_units(options)

\* the attributes of a newly constructed entity: the class defaults (with
\* temperature and its unit None, as the tests construct it), or the values
\* an integration passes to its constructor
DefaultAttrs ==
    [temperature |-> None, temperature_unit |-> None,
     pressure |-> None, pressure_unit |-> None,
     humidity |-> None, ozone |-> None, wind_bearing |-> None,
     wind_speed |-> None, wind_speed_unit |-> None,
     visibility |-> None, visibility_unit |-> None,
     precipitation_unit |-> None, forecast |-> None]

\* an entity as test_temperature_conversion .. test_custom_unit build it
PopulatedAttrs ==
    [temperature |-> Some(38000), temperature_unit |-> Some(TEMP_FAHRENHEIT),
     pressure |-> Some(1000000), pressure_unit |-> Some(PRESSURE_HPA),
     humidity |-> Some(42300), ozone |-> None, wind_bearing |-> Some(315000),
     wind_speed |-> Some(10000), wind_speed_unit |-> Some(SPEED_METERS_PER_SECOND),
     visibility |-> Some(10000), visibility_unit |-> Some(LENGTH_MILES),
     precipitation_unit |-> Some(LENGTH_MILLIMETERS),
     forecast |-> Some(<<FullEntry>>)]

\* the entity of test_none_forecast: units without values
NullValuedAttrs ==
    [DefaultAttrs EXCEPT !.pressure_unit = Some(PRESSURE_INHG),
                         !.wind_speed_unit = Some(SPEED_METERS_PER_SECOND),
                         !.precipitation_unit = Some(LENGTH_MILLIMETERS),
                         !.temperature_unit = Some(TEMP_CELSIUS),
                         !.forecast = Some(<<NullEntry>>)]

\* an integration that declares no native unit: values without units
UnitlessAttrs ==
    [DefaultAttrs EXCEPT !.temperature = Some(21456), !.pressure = Some(1013256),
                         !.wind_speed = Some(10123), !.visibility = Some(5555),
                         !.forecast = Some(<<SparseEntry>>)]

InitialAttrs == {DefaultAttrs, PopulatedAttrs, NullValuedAttrs, UnitlessAttrs}

\* the registry entry at start-up: none, a new one, or one whose options
\* already hold a units map
InitialRegistry ==
    {None, Some(EmptyDict),
     Some(WeatherOptions((ATTR_WEATHER_PRESSURE :> Some(PRESSURE_INHG))))}

Init ==
    /\ is_metric \in BOOLEAN
    /\ registry_entry \in InitialRegistry
    /\ added = FALSE
    /\ option_units_of_measurement = None
    /\ attr \in InitialAttrs
    /\ result = NotRead
    /\ updates = 0

\* the integration assigns attributes of the entity
Write(new_attr) ==
    /\ updates < MaxUpdates
    /\ attr' = new_attr
    /\ updates' = updates + 1
    /\ result' = NotRead
    /\ UNCHANGED <<is_metric, registry_entry, added, option_units_of_measurement>>

UpdateTemperature ==
    \E c \in TemperatureChoices :
        Write([attr EXCEPT !.temperature = c[1], !.temperature_unit = c[2]])

UpdatePressure ==
    \E c \in PressureChoices :
        Write([attr EXCEPT !.pressure = c[1], !.pressure_unit = c[2]])

UpdateWindSpeed ==
    \E c \in WindSpeedChoices :
        Write([attr EXCEPT !.wind_speed = c[1], !.wind_speed_unit = c[2]])

UpdateVisibility ==
    \E c \in VisibilityChoices :
        Write([attr EXCEPT !.visibility = c[1], !.visibility_unit = c[2]])

UpdatePrecipitationUnit ==
    \E u \in PrecipitationUnitChoices : Write([attr EXCEPT !.precipitation_unit = u])

UpdateHumidity ==
    \E h \in HumidityChoices : Write([attr EXCEPT !.humidity = h])

UpdateOzone ==
    \E o \in OzoneChoices : Write([attr EXCEPT !.ozone = o])

UpdateWindBearing ==
    \E b \in WindBearingChoices : Write([attr EXCEPT !.wind_bearing = b])

UpdateForecast ==
    \E f \in ForecastChoices : Write([attr EXCEPT !.forecast = f])

\* async_internal_added_to_hass
AddedToHass ==
    /\ ~added
    /\ added' = TRUE
    /\ option_units_of_measurement' =
          IF registry_entry = None THEN option_units_of_measurement
          ELSE async_registry_entry_updated(registry_entry[1])
    /\ result' = NotRead
    /\ UNCHANGED <<is_metric, registry_entry, attr, updates>>

\* the registry entry's options are replaced; an entity that has been added
\* is told so through async_registry_entry_updated
RegistryUpdate ==
    /\ registry_entry # None
    /\ updates < MaxUpdates
    /\ \E options \in RegistryOptions :
          /\ registry_entry' = Some(options)
          /\ option_units_of_measurement' =
                IF added THEN async_registry_entry_updated(options)
                ELSE option_units_of_measurement
    /\ updates' = updates + 1
    /\ result' = NotRead
    /\ UNCHANGED <<is_metric, added, attr>>

\* a read of state_attributes
Read ==
    LET r == state_attributes(Self)
    IN  /\ result' = [read |-> TRUE, raised |-> r.acc.raised, data |-> r.acc.data,
                      calls |-> r.acc.calls]
        /\ attr' = [attr EXCEPT !.forecast = r.stored]
        /\ UNCHANGED <<is_metric, registry_entry, added, option_units_of_measurement,
                       updates>>

Next ==
    \/ UpdateTemperature
    \/ UpdatePressure
    \/ UpdateWindSpeed
    \/ UpdateVisibility
    \/ UpdatePrecipitationUnit
    \/ UpdateHumidity
    \/ UpdateOzone
    \/ UpdateWindBearing
    \/ UpdateForecast
    \/ AddedToHass
    \/ RegistryUpdate
    \/ Read

Spec == Init /\ [][Next]_vars

(***************************************************************************)
(* What the claims are stated in                                           *)
(***************************************************************************)
\* the unit the specification resolves for a quantity: the override's unit
\* when a map is present and holds a non-empty, valid unit for the quantity,
\* else the profile's default
OverrideUnit(option, quantity) ==
    IF option # None /\ quantity \in DOMAIN option[1] THEN option[1][quantity] ELSE None

OverrideApplies(option, quantity) ==
    LET u == OverrideUnit(option, quantity)
    IN  u # None /\ u # Some("") /\ u[1] \in VALID_UNITS(quantity)

ProfileUnit(quantity) ==
    IF is_metric THEN METRIC_UNITS(quantity) ELSE IMPERIAL_UNITS(quantity)

SpecUnit(option, quantity) ==
    IF OverrideApplies(option, quantity) THEN OverrideUnit(option, quantity)[1]
    ELSE ProfileUnit(quantity)

\* the entity with another override map
WithOption(option) == [Self EXCEPT !.option = option]

\* the forecast fields that carry a quantity
FieldsOf(quantity) ==
    IF quantity = ATTR_WEATHER_TEMPERATURE
    THEN {ATTR_FORECAST_TEMP, ATTR_FORECAST_TEMP_LOW}
    ELSE {quantity}

\* what a result holds for one quantity: its top-level value and its fields
\* in every forecast entry
TopOf(data, quantity) ==
    IF quantity \in DOMAIN data THEN Some(data[quantity]) ELSE None

ForecastOf(data, quantity) ==
    IF ATTR_FORECAST \in DOMAIN data
    THEN Some([i \in 1..Len(data[ATTR_FORECAST]) |->
                 [f \in FieldsOf(quantity) \cap DOMAIN data[ATTR_FORECAST][i] |->
                     data[ATTR_FORECAST][i][f]]])
    ELSE None

\* the result of a read of the entity as it stands, without its side effect
ReadOf(self) ==
    LET r == state_attributes(self)
    IN  [read |-> TRUE, raised |-> r.acc.raised, data |-> r.acc.data, calls |-> r.acc.calls]

\* C1: for every quantity, profile and override state, displayed_unit
\* returns the override's unit exactly when a map is present and holds a
\* non-empty unit for the quantity that is in VALID_UNITS; in every other
\* case it returns the profile's default.
C1_DisplayedUnit ==
    \A q \in Quantities :
        LET d == displayed_unit(Self, q)
            o == option_units_of_measurement
        IN  /\ OverrideApplies(o, q) => d = OverrideUnit(o, q)[1]
            /\ ~OverrideApplies(o, q) => d = ProfileUnit(q)
            /\ OverrideUnit(o, q) # None =>
                  (d = OverrideUnit(o, q)[1] <=> OverrideApplies(o, q))

\* a read under an override that applies and differs from the default:
\* 1000 hPa is reported in inHg on a metric system
C1_Witness ==
    /\ result.read /\ ~result.raised
    /\ is_metric
    /\ OverrideApplies(option_units_of_measurement, ATTR_WEATHER_PRESSURE)
    /\ displayed_unit(Self, ATTR_WEATHER_PRESSURE) = PRESSURE_INHG
    /\ attr.pressure = Some(1000000) /\ attr.pressure_unit = Some(PRESSURE_HPA)
    /\ result.data[ATTR_WEATHER_PRESSURE] = 29530

\* the override map holds, for the quantity, a unit that is not valid for it
InvalidOverride(q) ==
    LET u == OverrideUnit(option_units_of_measurement, q)
    IN  u # None /\ u # Some("") /\ u[1] \notin VALID_UNITS(q)

StatedOverride(options) ==
    IF DOMAIN_WEATHER \notin DOMAIN options \/ options[DOMAIN_WEATHER] = None
    THEN None
    ELSE LET w == options[DOMAIN_WEATHER][1]
         IN  IF CONF_UNITS_OF_MEASUREMENT \notin DOMAIN w THEN None
             ELSE w[CONF_UNITS_OF_MEASUREMENT]

\* C3 as stated: once the entity is added with a registry entry, the
\* override map equals the units map of the latest registry options, or is
\* none when they hold no weather options or no units map.
C3_AsStated ==
    (added /\ registry_entry # None) =>
        option_units_of_measurement = StatedOverride(registry_entry[1])

\* C3 as amended: ... or is none when they hold no weather options, no
\* units map or an empty units map.  The map depends on the latest options
\* alone (it is replaced, never merged), so a cleared override leaves
\* every quantity on the profile's default.
C3_OverrideFollowsRegistry ==
    (added /\ registry_entry # None) =>
        /\ option_units_of_measurement =
              (IF StatedOverride(registry_entry[1]) = Some(EmptyDict) THEN None
               ELSE StatedOverride(registry_entry[1]))
        /\ StatedOverride(registry_entry[1]) = None =>
              \A q \in Quantities : displayed_unit(Self, q) = ProfileUnit(q)

\* the registry entry, which held an inHg override for pressure, has been
\* updated to clear it, and the read reports 1000 hPa in the metric default
C3_Witness ==
    /\ added /\ registry_entry = Some((DOMAIN_WEATHER :> None))
    /\ updates = 1 /\ attr = PopulatedAttrs
    /\ is_metric
    /\ result.read /\ ~result.raised
    /\ attr.pressure = Some(1000000) /\ attr.pressure_unit = Some(PRESSURE_HPA)
    /\ result.data[ATTR_WEATHER_PRESSURE] = 1000000

\* the four quantities converted at the top level, the five forecast
\* fields converted in every entry, and the fields copied as they are
TopQuantities ==
    {ATTR_WEATHER_TEMPERATURE, ATTR_WEATHER_PRESSURE, ATTR_WEATHER_WIND_SPEED,
     ATTR_WEATHER_VISIBILITY}

ConvertedFields ==
    {ATTR_FORECAST_TEMP, ATTR_FORECAST_TEMP_LOW, ATTR_FORECAST_PRESSURE,
     ATTR_FORECAST_WIND_SPEED, ATTR_FORECAST_PRECIPITATION}

CopiedFields ==
    {ATTR_FORECAST_CONDITION, ATTR_FORECAST_TIME,
     ATTR_FORECAST_PRECIPITATION_PROBABILITY, ATTR_FORECAST_WIND_BEARING}

QuantityOf(field) ==
    IF field = ATTR_FORECAST_TEMP_LOW THEN ATTR_WEATHER_TEMPERATURE ELSE field

\* the entity's native unit for a quantity
NativeUnit(quantity) ==
    CASE quantity = ATTR_WEATHER_TEMPERATURE -> attr.temperature_unit
      [] quantity = ATTR_WEATHER_PRESSURE -> attr.pressure_unit
      [] quantity = ATTR_WEATHER_WIND_SPEED -> attr.wind_speed_unit
      [] quantity = ATTR_WEATHER_VISIBILITY -> attr.visibility_unit
      [] quantity = ATTR_WEATHER_PRECIPITATION -> attr.precipitation_unit

\* the rounding table: decimals kept for a quantity shown in a unit
Decimals(quantity, displayed) ==
    IF quantity = ATTR_WEATHER_TEMPERATURE
    THEN (IF displayed = TEMP_CELSIUS THEN 1 ELSE 0)
    ELSE 2

IsRounded(v, ndigits) == v % Pow10(3 - ndigits) = 0

UtilConvert(quantity, v, from_unit, to_unit) ==
    CASE quantity = ATTR_WEATHER_TEMPERATURE -> temperature_util_convert(v, from_unit, to_unit)
      [] quantity = ATTR_WEATHER_PRESSURE -> pressure_util_convert(v, from_unit, to_unit)
      [] quantity = ATTR_WEATHER_WIND_SPEED -> speed_util_convert(v, from_unit, to_unit)
      [] quantity \in {ATTR_WEATHER_VISIBILITY, ATTR_WEATHER_PRECIPITATION} ->
            distance_util_convert(v, from_unit, to_unit)

\* the native value converted to the displayed unit of its quantity and
\* rounded by the quantity's rule
Expected(quantity, v, unit) ==
    LET d == SpecUnit(option_units_of_measurement, quantity)
    IN  round(UtilConvert(quantity, v, unit, d), Decimals(quantity, d))

\* the entries of the stored and of the reported forecast
Native(i) == attr.forecast[1][i]
Reported(i) == result.data[ATTR_FORECAST][i]
Entries == IF attr.forecast = None THEN {} ELSE 1..Len(attr.forecast[1])

Returned == result.read /\ ~result.raised

\* C4: for temperature, pressure, wind speed and visibility at the top
\* level and for temperature, templow, pressure, wind_speed and
\* precipitation in every forecast entry, when the native value and the
\* native unit are both non-null the reported value is the native value
\* converted to displayed_unit(quantity) and rounded by the quantity's rule.
C4_ConvertedAndRounded ==
    Returned =>
        /\ \A q \in TopQuantities :
              (attr[q] # None /\ NativeUnit(q) # None) =>
                  /\ q \in DOMAIN result.data
                  /\ result.data[q] = Expected(q, attr[q][1], NativeUnit(q)[1])
        /\ \A i \in Entries : \A f \in ConvertedFields :
              (Get(Native(i), f) # None /\ NativeUnit(QuantityOf(f)) # None) =>
                  Reported(i)[f] =
                      Some(Expected(QuantityOf(f), Native(i)[f][1], NativeUnit(QuantityOf(f))[1]))

\* 38 F on a metric system is reported as 3.3 C, and 1000 hPa under a
\* valid inHg override as 29.53, at the top level and in the forecast
C4_Witness ==
    /\ Returned /\ is_metric
    /\ attr.temperature = Some(38000) /\ attr.temperature_unit = Some(TEMP_FAHRENHEIT)
    /\ result.data[ATTR_WEATHER_TEMPERATURE] = 3300
    /\ attr.pressure = Some(1000000) /\ attr.pressure_unit = Some(PRESSURE_HPA)
    /\ OverrideUnit(option_units_of_measurement, ATTR_WEATHER_PRESSURE) = Some(PRESSURE_INHG)
    /\ result.data[ATTR_WEATHER_PRESSURE] = 29530
    /\ attr.forecast = Some(<<FullEntry>>)
    /\ Reported(1)[ATTR_FORECAST_PRESSURE] = Some(29530)
    /\ Reported(1)[ATTR_FORECAST_TEMP] = Some(3300)
    /\ Reported(1)[ATTR_FORECAST_PRECIPITATION] = Some(30000)

\* C5 as stated: every non-null input quantity is output rounded per the
\* table: temperature to one decimal when displayed in Celsius and to an
\* integer otherwise, the other four to two decimals.
C5_AsStated ==
    Returned =>
        /\ \A q \in TopQuantities :
              attr[q] # None =>
                  IsRounded(result.data[q],
                            Decimals(q, SpecUnit(option_units_of_measurement, q)))
        /\ \A i \in Entries : \A f \in ConvertedFields :
              Get(Native(i), f) # None =>
                  IsRounded(Reported(i)[f][1],
                            Decimals(QuantityOf(f),
                                     SpecUnit(option_units_of_measurement, QuantityOf(f))))

\* C5 as amended: every non-null input quantity whose native unit is
\* non-null, and top-level pressure whatever its native unit, is output
\* rounded per the table.
C5_RoundedPerTable ==
    Returned =>
        /\ \A q \in TopQuantities :
              (attr[q] # None /\ (NativeUnit(q) # None \/ q = ATTR_WEATHER_PRESSURE)) =>
                  IsRounded(result.data[q],
                            Decimals(q, SpecUnit(option_units_of_measurement, q)))
        /\ \A i \in Entries : \A f \in ConvertedFields :
              (Get(Native(i), f) # None /\ NativeUnit(QuantityOf(f)) # None) =>
                  IsRounded(Reported(i)[f][1],
                            Decimals(QuantityOf(f),
                                     SpecUnit(option_units_of_measurement, QuantityOf(f))))

\* 21.456 C is reported in Fahrenheit as the integer 71, 1013.256 with no
\* native unit as 1013.26, and 21.456 C in a forecast entry as 71
C5_Witness ==
    /\ Returned /\ ~is_metric
    /\ attr.temperature = Some(21456) /\ attr.temperature_unit = Some(TEMP_CELSIUS)
    /\ result.data[ATTR_WEATHER_TEMPERATURE] = 71000
    /\ attr.pressure = Some(1013256) /\ attr.pressure_unit = None
    /\ result.data[ATTR_WEATHER_PRESSURE] = 1013260
    /\ attr.forecast = Some(<<SparseEntry>>)
    /\ Reported(1)[ATTR_FORECAST_TEMP] = Some(71000)

\* no top-level value and no forecast field that a conversion would read
NothingToConvert ==
    /\ \A q \in TopQuantities : attr[q] = None
    /\ \A i \in Entries : \A f \in ConvertedFields : Get(Native(i), f) = None

\* C6: a forecast field among pressure, wind_speed, precipitation,
\* temperature and templow that is present with a null value is null in the
\* output entry, no conversion is invoked for it and it raises nothing,
\* whatever the native unit, the profile and the override.
C6_NullForecastField ==
    result.read =>
        /\ \A i \in Entries : \A f \in ConvertedFields :
              (f \in DOMAIN Native(i) /\ Native(i)[f] = None) =>
                  /\ <<i, f>> \notin result.calls
                  /\ ~result.raised =>
                        (f \in DOMAIN Reported(i) /\ Reported(i)[f] = None)
        /\ NothingToConvert => ~result.raised

\* an entry of null fields read while every native unit is set, that of
\* wind speed to a unit no helper knows
C6_Witness ==
    /\ Returned
    /\ attr.forecast # None /\ Len(attr.forecast[1]) = 1
    /\ \A f \in ConvertedFields : f \in DOMAIN Native(1) /\ Native(1)[f] = None
    /\ attr.wind_speed_unit = Some(INVALID_UNIT)
    /\ attr.pressure_unit # None /\ attr.precipitation_unit # None
    /\ attr.temperature_unit # None
    /\ \A f \in ConvertedFields : Reported(1)[f] = None

TopValues ==
    {ATTR_WEATHER_TEMPERATURE, ATTR_WEATHER_HUMIDITY, ATTR_WEATHER_OZONE,
     ATTR_WEATHER_PRESSURE, ATTR_WEATHER_WIND_BEARING, ATTR_WEATHER_WIND_SPEED,
     ATTR_WEATHER_VISIBILITY}

\* C7: a top-level quantity whose native value is null is not reported: the
\* result holds nothing for it, no conversion is invoked for it and it
\* raises nothing, even when its native unit is set.
C7_NullTopLevel ==
    result.read =>
        /\ \A q \in TopValues :
              attr[q] = None =>
                  /\ <<TopLevel, q>> \notin result.calls
                  /\ q \notin DOMAIN result.data
        /\ NothingToConvert => ~result.raised

\* a null wind speed whose native unit is set, to a unit no helper knows,
\* and a null pressure whose native unit is inHg
C7_Witness ==
    /\ Returned
    /\ attr.wind_speed = None /\ attr.wind_speed_unit = Some(INVALID_UNIT)
    /\ attr.pressure = None /\ attr.pressure_unit = Some(PRESSURE_INHG)
    /\ ATTR_WEATHER_WIND_SPEED \notin DOMAIN result.data
    /\ ATTR_WEATHER_PRESSURE \notin DOMAIN result.data

\* the entry a read reports for a forecast that holds this entry alone
ReportedAlone(entry) ==
    ReadOf([Self EXCEPT !.attr.forecast = Some(<<entry>>)]).data[ATTR_FORECAST][1]

\* C8: every forecast entry is converted independently of the others, with
\* the entity's units; the output list has the length and the order of the
\* native list, a field absent from a native entry is absent from the
\* output entry, and condition, datetime, precipitation_probability and
\* wind_bearing are copied unchanged.
C8_ForecastEntries ==
    Returned =>
        /\ attr.forecast = None <=> ATTR_FORECAST \notin DOMAIN result.data
        /\ attr.forecast # None =>
              /\ Len(result.data[ATTR_FORECAST]) = Len(attr.forecast[1])
              /\ \A i \in Entries :
                    /\ DOMAIN Reported(i) = DOMAIN Native(i)
                    /\ \A f \in CopiedFields \cap DOMAIN Native(i) :
                          Reported(i)[f] = Native(i)[f]
                    /\ Reported(i) = ReportedAlone(Native(i))

\* two different entries, the second with absent fields, reported in their
\* order and converted
C8_Witness ==
    /\ Returned
    /\ attr.forecast # None /\ Len(attr.forecast[1]) = 2
    /\ Native(1) = FullEntry /\ Native(2) = SparseEntry
    /\ ATTR_FORECAST_PRESSURE \notin DOMAIN Native(2)
    /\ Reported(1)[ATTR_FORECAST_TIME] = "d1"
    /\ Reported(2)[ATTR_FORECAST_TIME] = "d3"
    /\ Reported(1) # Native(1) /\ Reported(2) # Native(2)

\* C9: a read leaves every native value and unit, the stored forecast list
\* and its entries, and the override map as they were.
C9_ReadChangesNothing ==
    [][result'.read =>
          /\ attr' = attr
          /\ option_units_of_measurement' = option_units_of_measurement
          /\ registry_entry' = registry_entry
          /\ is_metric' = is_metric]_vars

\* a read that reported converted forecast entries, the stored ones being
\* what the integration stored
C9_Witness ==
    /\ Returned
    /\ attr.forecast = Some(<<FullEntry>>)
    /\ Reported(1) # FullEntry
    /\ Reported(1)[ATTR_FORECAST_TEMP] = Some(3300)

\* C10: when the native unit of a quantity is its displayed unit, the
\* reported value is the native value up to the quantity's rounding rule.
C10_SameUnitIdentity ==
    Returned =>
        /\ \A q \in TopQuantities :
              LET d == SpecUnit(option_units_of_measurement, q)
              IN  (attr[q] # None /\ NativeUnit(q) = Some(d)) =>
                      /\ result.data[q] = round_value(attr[q][1], Decimals(q, d))
                      /\ 2 * (result.data[q] - attr[q][1]) <= Pow10(3 - Decimals(q, d))
                      /\ 2 * (attr[q][1] - result.data[q]) <= Pow10(3 - Decimals(q, d))
        /\ \A i \in Entries : \A f \in ConvertedFields :
              LET d == SpecUnit(option_units_of_measurement, QuantityOf(f))
              IN  (Get(Native(i), f) # None /\ NativeUnit(QuantityOf(f)) = Some(d)) =>
                      Reported(i)[f] =
                          Some(round_value(Native(i)[f][1], Decimals(QuantityOf(f), d)))

\* the override set back to the native unit, hPa, on an imperial system:
\* 1000 hPa is reported as 1000
C10_Witness ==
    /\ Returned /\ ~is_metric
    /\ OverrideUnit(option_units_of_measurement, ATTR_WEATHER_PRESSURE) = Some(PRESSURE_HPA)
    /\ attr.pressure = Some(1000000) /\ attr.pressure_unit = Some(PRESSURE_HPA)
    /\ result.data[ATTR_WEATHER_PRESSURE] = 1000000
    /\ attr.forecast = Some(<<FullEntry>>)
    /\ Reported(1)[ATTR_FORECAST_PRESSURE] = Some(1000000)

\* the units the conversion helper of a quantity knows
UtilValidUnits(quantity) ==
    CASE quantity = ATTR_WEATHER_TEMPERATURE -> temperature_util_VALID_UNITS
      [] quantity = ATTR_WEATHER_PRESSURE -> pressure_util_VALID_UNITS
      [] quantity = ATTR_WEATHER_WIND_SPEED -> speed_util_VALID_UNITS
      [] quantity \in {ATTR_WEATHER_VISIBILITY, ATTR_WEATHER_PRECIPITATION} ->
            distance_util_VALID_UNITS

\* the entity's native unit for the quantity is set to a unit its helper
\* does not know
InvalidNativeUnit(quantity) ==
    NativeUnit(quantity) # None /\ NativeUnit(quantity)[1] \notin UtilValidUnits(quantity)

\* a present value, at the top level or in a forecast entry, whose native
\* unit is invalid
PresentValueWithInvalidUnit ==
    \/ \E q \in TopQuantities : attr[q] # None /\ InvalidNativeUnit(q)
    \/ \E i \in Entries : \E f \in ConvertedFields :
          Get(Native(i), f) # None /\ InvalidNativeUnit(QuantityOf(f))

\* the result holds every top-level value the entity has and a forecast
\* entry, with all its fields, for every stored entry
CompleteResult ==
    /\ \A q \in TopValues : q \in DOMAIN result.data <=> attr[q] # None
    /\ ATTR_FORECAST \in DOMAIN result.data <=> attr.forecast # None
    /\ attr.forecast # None =>
          /\ Len(result.data[ATTR_FORECAST]) = Len(attr.forecast[1])
          /\ \A i \in Entries : DOMAIN Reported(i) = DOMAIN Native(i)

\* C11: a present value whose native unit is invalid makes the read raise,
\* and nothing else does; a read that raises returns nothing and a read
\* that returns is complete: no quantity is silently left out.
C11_ErrorPropagates ==
    result.read =>
        /\ result.raised <=> PresentValueWithInvalidUnit
        /\ result.raised => result.data = EmptyDict
        /\ ~result.raised => CompleteResult

\* 38 with the native unit "peer_pressure", alongside a valid pressure:
\* the read raised at the temperature conversion and returned nothing
C11_Witness ==
    /\ result.read /\ result.raised
    /\ attr.temperature = Some(38000) /\ attr.temperature_unit = Some(INVALID_UNIT)
    /\ attr.pressure = Some(1000000) /\ attr.pressure_unit = Some(PRESSURE_HPA)
    /\ <<TopLevel, ATTR_WEATHER_TEMPERATURE>> \in result.calls
    /\ <<TopLevel, ATTR_WEATHER_PRESSURE>> \notin result.calls
    /\ result.data = EmptyDict

\* the three values the read reports without a unit
UnitlessValues == {ATTR_WEATHER_HUMIDITY, ATTR_WEATHER_OZONE, ATTR_WEATHER_WIND_BEARING}

\* the entity on the other system profile and with no override map
OtherProfileNoOverride == [Self EXCEPT !.is_metric = ~is_metric, !.option = None]

\* C12: humidity is reported rounded to an integer, ozone and wind bearing
\* exactly as supplied; the three are functions of the native value alone,
\* the same on the other system profile and without the override map.
C12_UnitlessValues ==
    Returned =>
        /\ attr.humidity # None =>
              /\ result.data[ATTR_WEATHER_HUMIDITY] = round_value(attr.humidity[1], 0)
              /\ IsRounded(result.data[ATTR_WEATHER_HUMIDITY], 0)
        /\ attr.ozone # None => result.data[ATTR_WEATHER_OZONE] = attr.ozone[1]
        /\ attr.wind_bearing # None =>
              result.data[ATTR_WEATHER_WIND_BEARING] = attr.wind_bearing[1]
        /\ LET other == ReadOf(OtherProfileNoOverride)
           IN  /\ ~other.raised
               /\ \A q \in UnitlessValues : TopOf(other.data, q) = TopOf(result.data, q)

\* humidity 42.3 reported as 42, ozone 300.123 and wind bearing 315 as
\* they are, on an imperial system under an override that changes the
\* pressure
C12_Witness ==
    /\ Returned /\ ~is_metric
    /\ OverrideApplies(option_units_of_measurement, ATTR_WEATHER_PRESSURE)
    /\ attr.humidity = Some(42300) /\ result.data[ATTR_WEATHER_HUMIDITY] = 42000
    /\ attr.ozone = Some(300123) /\ result.data[ATTR_WEATHER_OZONE] = 300123
    /\ attr.wind_bearing = Some(315000)
    /\ result.data[ATTR_WEATHER_WIND_BEARING] = 315000
    /\ result.data[ATTR_WEATHER_PRESSURE] # ReadOf(OtherProfileNoOverride).data[ATTR_WEATHER_PRESSURE]

\* the native value converted to the unit that the override map `option`
\* gives its quantity, and rounded by the quantity's rule
ExpectedUnder(option, quantity, v, unit) ==
    LET d == SpecUnit(option, quantity)
    IN  round(UtilConvert(quantity, v, unit, d), Decimals(quantity, d))

\* every converted value of the result, at the top level and in every
\* forecast entry, is the one computed against the override map `option`
ComputedAgainst(option) ==
    /\ \A q \in TopQuantities :
          (attr[q] # None /\ NativeUnit(q) # None) =>
              result.data[q] = ExpectedUnder(option, q, attr[q][1], NativeUnit(q)[1])
    /\ \A i \in Entries : \A f \in ConvertedFields :
          (Get(Native(i), f) # None /\ NativeUnit(QuantityOf(f)) # None) =>
              Reported(i)[f] =
                  Some(ExpectedUnder(option, QuantityOf(f), Native(i)[f][1],
                                     NativeUnit(QuantityOf(f))[1]))

\* the override maps the registry can put in effect
OverrideStates == {None} \cup {Some(m) : m \in OverrideMaps \ {EmptyDict}}

\* C13: under every interleaving of reads, additions and registry updates,
\* all the values of one result are computed against one override map, the
\* one in effect when the read ran: the callback replaces the map between
\* reads, never within one.
C13_OneOverrideMap ==
    Returned =>
        /\ option_units_of_measurement \in OverrideStates
        /\ ComputedAgainst(option_units_of_measurement)

\* a read after a registry update that put {temperature: K, pressure: inHg}
\* in effect: 38 F and 1000 hPa are reported as 276 K and 29.53 inHg at the
\* top level and in the forecast entry, none of them as under the map
\* before the update
C13_Witness ==
    /\ Returned /\ added /\ updates = 1
    /\ option_units_of_measurement =
          Some((ATTR_WEATHER_TEMPERATURE :> Some(TEMP_KELVIN))
               @@ (ATTR_WEATHER_PRESSURE :> Some(PRESSURE_INHG)))
    /\ attr = PopulatedAttrs
    /\ result.data[ATTR_WEATHER_TEMPERATURE] = 276000
    /\ Reported(1)[ATTR_FORECAST_TEMP] = Some(276000)
    /\ result.data[ATTR_WEATHER_PRESSURE] = 29530
    /\ Reported(1)[ATTR_FORECAST_PRESSURE] = Some(29530)
    /\ ~ComputedAgainst(None)
    /\ ~ComputedAgainst(Some((ATTR_WEATHER_PRESSURE :> Some(PRESSURE_INHG))))

\* C14: in every reachable state, whatever the profile and the override
\* map, displayed_unit(q) is a member of VALID_UNITS[q] for each of the
\* five quantities, and so is each entry of the two default tables.
C14_DisplayedUnitValid ==
    \A q \in Quantities :
        /\ displayed_unit(Self, q) \in VALID_UNITS(q)
        /\ METRIC_UNITS(q) \in VALID_UNITS(q)
        /\ IMPERIAL_UNITS(q) \in VALID_UNITS(q)

\* after a registry update, a map in effect that holds an invalid unit for
\* pressure, metres for visibility and null for temperature: each of the
\* three is shown in the default of the metric profile
C14_Witness ==
    /\ added /\ updates = 1 /\ is_metric
    /\ option_units_of_measurement # None
    /\ OverrideUnit(option_units_of_measurement, ATTR_WEATHER_PRESSURE) = Some(INVALID_UNIT)
    /\ OverrideUnit(option_units_of_measurement, ATTR_WEATHER_VISIBILITY) = Some(LENGTH_METERS)
    /\ ATTR_WEATHER_TEMPERATURE \in DOMAIN option_units_of_measurement[1]
    /\ option_units_of_measurement[1][ATTR_WEATHER_TEMPERATURE] = None
    /\ displayed_unit(Self, ATTR_WEATHER_PRESSURE) = PRESSURE_HPA
    /\ displayed_unit(Self, ATTR_WEATHER_VISIBILITY) = LENGTH_KILOMETERS
    /\ displayed_unit(Self, ATTR_WEATHER_TEMPERATURE) = TEMP_CELSIUS
    /\ Returned

(***************************************************************************)
(* Reads of an entity that has been added with a registry entry, under     *)
(* every options the registry entry can hold                               *)
(***************************************************************************)
\* the populated entity once the integration has written a forecast of two
\* entries
TwoEntryAttrs == [PopulatedAttrs EXCEPT !.forecast = Some(<<FullEntry, SparseEntry>>)]

AddedInit ==
    /\ is_metric \in BOOLEAN
    /\ \E options \in RegistryOptions :
          /\ registry_entry = Some(options)
          /\ option_units_of_measurement = async_registry_entry_updated(options)
    /\ added = TRUE
    /\ attr \in InitialAttrs \cup {TwoEntryAttrs}
    /\ result = NotRead
    /\ updates = 0

AddedNext == RegistryUpdate \/ Read

AddedSpec == AddedInit /\ [][AddedNext]_vars

\* two override maps agree on a quantity: neither holds a unit for it, or
\* both hold the same one
AgreeOn(option1, option2, quantity) ==
    OverrideUnit(option1, quantity) = OverrideUnit(option2, quantity)

\* C15: an override entry for one quantity affects that quantity alone:
\* the read under any other override map that agrees with the one in
\* effect on a quantity raises when this read raises and reports the same
\* for that quantity, at the top level and in every forecast entry.
C15_OverrideFrame ==
    result.read =>
        \A o \in OverrideStates :
            LET other == ReadOf(WithOption(o))
            IN  /\ other.raised = result.raised
                /\ \A q \in Quantities :
                      AgreeOn(option_units_of_measurement, o, q) =>
                          /\ TopOf(other.data, q) = TopOf(result.data, q)
                          /\ ForecastOf(other.data, q) = ForecastOf(result.data, q)

\* a read under {temperature: K, pressure: inHg, visibility: m,
\* precipitation: in}: the pressure is the one reported under
\* {pressure: inHg} alone, the temperature is not
C15_Witness ==
    /\ Returned /\ is_metric /\ attr = PopulatedAttrs
    /\ option_units_of_measurement =
          Some((ATTR_WEATHER_TEMPERATURE :> Some(TEMP_KELVIN))
               @@ (ATTR_WEATHER_PRESSURE :> Some(PRESSURE_INHG))
               @@ (ATTR_WEATHER_VISIBILITY :> Some(LENGTH_METERS))
               @@ (ATTR_WEATHER_PRECIPITATION :> Some(LENGTH_INCHES)))
    /\ LET alone == ReadOf(WithOption(Some((ATTR_WEATHER_PRESSURE :> Some(PRESSURE_INHG)))))
       IN  /\ result.data[ATTR_WEATHER_PRESSURE] = 29530
           /\ alone.data[ATTR_WEATHER_PRESSURE] = 29530
           /\ Reported(1)[ATTR_FORECAST_PRESSURE] = Some(29530)
           /\ alone.data[ATTR_WEATHER_TEMPERATURE] # result.data[ATTR_WEATHER_TEMPERATURE]
           /\ alone.data[ATTR_FORECAST][1][ATTR_FORECAST_PRECIPITATION]
                 # Reported(1)[ATTR_FORECAST_PRECIPITATION]

\* every present value, at the top level and in the forecast, is of a
\* quantity whose native unit is null
NoNativeUnitInUse ==
    /\ \A q \in TopQuantities : attr[q] # None => NativeUnit(q) = None
    /\ \A i \in Entries : \A f \in ConvertedFields :
          Get(Native(i), f) # None => NativeUnit(QuantityOf(f)) = None

\* C16: a non-null native value whose native unit is null is not converted
\* and raises nothing, whatever the profile and the override: temperature,
\* wind speed and visibility are reported as they are, the pressure rounded
\* to two decimals, and the forecast fields are left as they are.
C16_NullNativeUnit ==
    result.read =>
        /\ \A q \in TopQuantities :
              (attr[q] # None /\ NativeUnit(q) = None) =>
                  /\ <<TopLevel, q>> \notin result.calls
                  /\ ~result.raised =>
                        result.data[q] =
                            (IF q = ATTR_WEATHER_PRESSURE
                             THEN round_value(attr[q][1], ROUNDING_PRECISION)
                             ELSE attr[q][1])
        /\ \A i \in Entries : \A f \in ConvertedFields :
              (Get(Native(i), f) # None /\ NativeUnit(QuantityOf(f)) = None) =>
                  /\ <<i, f>> \notin result.calls
                  /\ ~result.raised => Reported(i)[f] = Native(i)[f]
        /\ NoNativeUnitInUse => (~result.raised /\ result.calls = {})

\* the entity that declares no native unit, on an imperial system under an
\* override for the pressure: 21.456, 10.123 and 5.555 are reported as they
\* are, 1013.256 as 1013.26, and the forecast temperature stays 21.456
C16_Witness ==
    /\ Returned /\ ~is_metric
    /\ OverrideApplies(option_units_of_measurement, ATTR_WEATHER_PRESSURE)
    /\ \A q \in Quantities : NativeUnit(q) = None
    /\ attr.temperature = Some(21456) /\ result.data[ATTR_WEATHER_TEMPERATURE] = 21456
    /\ attr.wind_speed = Some(10123) /\ result.data[ATTR_WEATHER_WIND_SPEED] = 10123
    /\ attr.visibility = Some(5555) /\ result.data[ATTR_WEATHER_VISIBILITY] = 5555
    /\ attr.pressure = Some(1013256) /\ result.data[ATTR_WEATHER_PRESSURE] = 1013260
    /\ attr.forecast = Some(<<SparseEntry>>)
    /\ Reported(1)[ATTR_FORECAST_TEMP] = Some(21456)
    /\ result.calls = {}

====
